---- MODULE Spec2Model ----
(***************************************************************************)
(* civciv: a terminal SQL prompt over an in-process DuckDB connection.     *)
(* src/src/app.rs holds the application state (App) and its methods,       *)
(* src/src/main.rs the terminal set-up, the event loop (run_app) and the   *)
(* rendering callback (ui).                                                *)
(*                                                                         *)
(* A Rust String is a UTF-8 byte buffer.  The model keeps `input` as the   *)
(* sequence of its chars (Unicode scalar values) and computes byte offsets *)
(* from the encoded width of each char, so that byte positions and char    *)
(* positions are different numbers whenever a char is wider than one byte. *)
(***************************************************************************)
EXTENDS Integers, Sequences, FiniteSets, TLC

VARIABLES
    input,                 \* App.input: String, as its sequence of chars
    cursor_position,       \* App.cursor_position: usize
    input_mode,            \* App.input_mode: "Normal" | "Editing"
    data,                  \* App.data: Vec<RecordBatch>
    vertical_scroll,       \* App.vertical_scroll: usize
    vertical_scroll_state, \* App.vertical_scroll_state: ScrollbarState
    pc,                    \* position of the process in main / run_app
    res,                   \* main's `res`: the value run_app returned
    raw_mode,              \* terminal: raw mode enabled
    alt_screen,            \* terminal: alternate screen entered
    mouse_capture,         \* terminal: mouse capture enabled
    panic                  \* "none", or the place that panicked

vars == <<input, cursor_position, input_mode, data, vertical_scroll,
          vertical_scroll_state, pc, res, raw_mode, alt_screen,
          mouse_capture, panic>>

----------------------------------------------------------------------------
(* Bounds of the model.                                                    *)

\* Longest input, in chars, that the App-method specification builds.
MaxBufChars == 6
\* Longest input, in chars, that the whole-program specification builds.
MaxInputChars == 4
\* Largest vertical_scroll the whole-program specification builds.
MaxScroll == 6
\* Longest insert run tried by the insert/delete round trip.
MaxRun == 2
\* Most batches in a result set handed to the renderer specification.
MaxBatches == 4

----------------------------------------------------------------------------
(* Characters and strings.                                                 *)

\* The chars a key event can carry: two one-byte chars (which are also the
\* Normal-mode commands) and one char that UTF-8 encodes in four bytes.
Chars == {"e", "q", "U+1F600"}

\* char::len_utf8
len_utf8(ch) == IF ch = "U+1F600" THEN 4 ELSE 1

\* String::len: the length in BYTES
RECURSIVE len(_)
len(s) == IF s = <<>> THEN 0 ELSE len_utf8(Head(s)) + len(Tail(s))

\* The byte offset at which char number k (from 0) of s starts.
byte_offset(s, k) == len(SubSeq(s, 1, k))

\* str::is_char_boundary
is_char_boundary(s, idx) == \E k \in 0..Len(s) : byte_offset(s, k) = idx

\* String::insert(idx, ch), defined when idx is a char boundary of s.
insert(s, idx, ch) ==
    LET k == CHOOSE j \in 0..Len(s) : byte_offset(s, j) = idx
    IN  SubSeq(s, 1, k) \o <<ch>> \o SubSeq(s, k + 1, Len(s))

\* Iterator::take / Iterator::skip over s.chars()
take(s, n) == SubSeq(s, 1, IF n < Len(s) THEN n ELSE Len(s))
skip(s, n) == SubSeq(s, n + 1, Len(s))

\* usize::saturating_sub; usize::saturating_add (no value of the model comes
\* near usize::MAX, so the addition never saturates).
saturating_sub(a, b) == IF a >= b THEN a - b ELSE 0
saturating_add(a, b) == a + b

\* Ord::clamp
clamp(x, lo, hi) == IF x < lo THEN lo ELSE IF x > hi THEN hi ELSE x

----------------------------------------------------------------------------
(* The query engine's answers.                                             *)

\* A RecordBatch: its schema (one field per column) and its columns.
BatchA == [schema  |-> <<[name |-> "1", type |-> "Int32"]>>,
           columns |-> << <<1>> >>]
BatchB == [schema  |-> <<[name |-> "1", type |-> "Int32"]>>,
           columns |-> << <<2, 3>> >>]
\* A batch with a column of a type ArrayFormatter::try_new rejects.
BatchU == [schema  |-> <<[name |-> "u", type |-> "Unsupported"]>>,
           columns |-> << <<0>> >>]

\* A batch of the same schema as BatchA and BatchB that holds no row.
BatchE == [schema  |-> <<[name |-> "1", type |-> "Int32"]>>,
           columns |-> << <<>> >>]

\* What a statement's query_arrow iterator can yield.
ResultSets == { <<>>, <<BatchA, BatchB>>, <<BatchU>> }

\* What the engine answers to one submission: prepare fails, or query_arrow
\* fails, or both succeed and the iterator yields `batches`.
EngineReplies ==
    { [prepare |-> "Err", query |-> "Err", batches |-> <<>>],
      [prepare |-> "Ok",  query |-> "Err", batches |-> <<>>] }
    \cup { [prepare |-> "Ok", query |-> "Ok", batches |-> rs] : rs \in ResultSets }

----------------------------------------------------------------------------
(* App's methods, as functions from the App they are called on (`self`:    *)
(* the fields they read or write, and `panic`) to the App they leave.      *)

CursorStep == 10

\* The fields of App the methods use.
self == [input |-> input, cursor_position |-> cursor_position,
         data |-> data, panic |-> panic]

clamp_cursor(s, new_cursor_pos) == clamp(new_cursor_pos, 0, len(s.input))

move_cursor_left(s) ==
    LET cursor_moved_left == saturating_sub(s.cursor_position, CursorStep)
    IN  [s EXCEPT !.cursor_position = clamp_cursor(s, cursor_moved_left)]

move_cursor_right(s) ==
    LET cursor_moved_right == saturating_add(s.cursor_position, CursorStep)
    IN  [s EXCEPT !.cursor_position = clamp_cursor(s, cursor_moved_right)]

\* String::insert asserts that the index is a char boundary and panics
\* otherwise.
enter_char(s, new_char) ==
    IF is_char_boundary(s.input, s.cursor_position)
    THEN move_cursor_right(
             [s EXCEPT !.input = insert(s.input, s.cursor_position, new_char)])
    ELSE [s EXCEPT !.panic = "enter_char"]

\* delete_char as a forward delete: without the leftmost check, and removing
\* the char at the cursor instead of the one before it.
delete_char_at_cursor(s) ==
    LET current_index == s.cursor_position
        before_char_to_delete == take(s.input, current_index)
        after_char_to_delete == skip(s.input, current_index + 1)
    IN  move_cursor_left(
            [s EXCEPT !.input = before_char_to_delete \o after_char_to_delete])

delete_char(s) ==
    LET is_not_cursor_leftmost == s.cursor_position # 0
        current_index == s.cursor_position
        from_left_to_current_index == current_index - 1
        before_char_to_delete == take(s.input, from_left_to_current_index)
        after_char_to_delete == skip(s.input, current_index)
    IN  IF is_not_cursor_leftmost
        THEN move_cursor_left(
                 [s EXCEPT !.input = before_char_to_delete \o after_char_to_delete])
        ELSE s

reset_cursor(s) == [s EXCEPT !.cursor_position = 0]

\* submit_sql without its self.input.clear().
submit_sql_keeps_input(s, reply) ==
    IF reply.prepare = "Err" \/ reply.query = "Err"
    THEN [s EXCEPT !.panic = "submit_sql"]
    ELSE reset_cursor([s EXCEPT !.data = reply.batches])

\* prepare(..).unwrap() and query_arrow(..).unwrap() panic on Err.
submit_sql(s, reply) ==
    IF reply.prepare = "Err" \/ reply.query = "Err"
    THEN [s EXCEPT !.panic = "submit_sql"]
    ELSE reset_cursor([s EXCEPT !.data = reply.batches, !.input = <<>>])

----------------------------------------------------------------------------
(* Rendering.                                                              *)

\* RecordBatch::num_rows
num_rows(batch) == IF batch.columns = <<>> THEN 0 ELSE Len(batch.columns[1])

\* ArrayFormatter::try_new succeeds on every column of the batch.
formattable(batch) ==
    \A i \in 1..Len(batch.schema) : batch.schema[i].type # "Unsupported"

\* The rows of one batch, each the formatted values of its columns.
batch_rows(batch) ==
    [r \in 1..num_rows(batch) |->
        [c \in 1..Len(batch.columns) |-> ToString(batch.columns[c][r])]]

\* The rows gathered with each batch put in front of the ones before it.
RECURSIVE all_rows_last_batch_first(_)
all_rows_last_batch_first(batches) ==
    IF batches = <<>> THEN <<>>
    ELSE all_rows_last_batch_first(Tail(batches)) \o batch_rows(Head(batches))

RECURSIVE all_rows(_)
all_rows(batches) ==
    IF batches = <<>> THEN <<>>
    ELSE batch_rows(Head(batches)) \o all_rows(Tail(batches))

\* App::data_to_table: Err when a column of some batch cannot be formatted
\* (the `?` at line 117 returns at the first such batch).
data_to_table(s) ==
    IF s.data = <<>>
    THEN [ok |-> TRUE, header |-> <<>>, rows |-> <<>>]
    ELSE IF \E i \in 1..Len(s.data) : ~formattable(s.data[i])
    THEN [ok |-> FALSE, header |-> <<>>, rows |-> <<>>]
    ELSE [ok |-> TRUE,
          header |-> [i \in 1..Len(s.data[1].schema) |-> s.data[1].schema[i].name],
          rows |-> all_rows(s.data)]

\* Table::to_string: the lines of the grid under the preset of line 98 (no
\* lines between rows): a top border, the header line and its separator when
\* there is a header, one line per row, and a bottom border.  A table
\* without header and rows prints its two borders.
table_lines(table) ==
    1 + (IF table.header = <<>> THEN 0 ELSE 2) + Len(table.rows) + 1

\* The width of one grid line: per column a border and a padded cell of one
\* character, and the closing border; the two corners when there is no column.
line_width(table) ==
    IF table.header = <<>> THEN 2 ELSE 4 * Len(table.header) + 1

\* String::len of Table::to_string(): the bytes of all lines and of the
\* newlines between them.
table_string_len(table) ==
    table_lines(table) * line_width(table) + (table_lines(table) - 1)

----------------------------------------------------------------------------
(* Initial state.                                                          *)

\* App::new
InitApp ==
    /\ input = <<>>
    /\ input_mode = "Normal"
    /\ cursor_position = 0
    /\ data = <<>>
    /\ vertical_scroll_state = [content_length |-> 0, position |-> 0]
    /\ vertical_scroll = 0

\* The process at the start of main.
Init ==
    /\ InitApp
    /\ pc = "open_db"
    /\ res = "none"
    /\ raw_mode = FALSE
    /\ alt_screen = FALSE
    /\ mouse_capture = FALSE
    /\ panic = "none"

\* The App as run_app receives it, the terminal set up, waiting for an event.
InitMethods ==
    /\ InitApp
    /\ pc = "read"
    /\ res = "none"
    /\ raw_mode = TRUE
    /\ alt_screen = TRUE
    /\ mouse_capture = TRUE
    /\ panic = "none"

\* The App after a method returned `s` (or panicked).
Becomes(s) ==
    /\ input' = s.input
    /\ cursor_position' = s.cursor_position
    /\ data' = s.data
    /\ panic' = s.panic

----------------------------------------------------------------------------
(* The App's methods called in any order (the specification SpecMethods).  *)

rest == <<input_mode, vertical_scroll, vertical_scroll_state, pc, res,
          raw_mode, alt_screen, mouse_capture>>

CallEnterChar(ch) ==
    /\ panic = "none"
    /\ Len(input) < MaxBufChars
    /\ Becomes(enter_char(self, ch))
    /\ UNCHANGED rest

CallDeleteChar ==
    /\ panic = "none"
    /\ Becomes(delete_char(self))
    /\ UNCHANGED rest

CallMoveCursorLeft ==
    /\ panic = "none"
    /\ Becomes(move_cursor_left(self))
    /\ UNCHANGED rest

CallMoveCursorRight ==
    /\ panic = "none"
    /\ Becomes(move_cursor_right(self))
    /\ UNCHANGED rest

CallSubmitSql(reply) ==
    /\ panic = "none"
    /\ Becomes(submit_sql(self, reply))
    /\ UNCHANGED rest

NextMethods ==
    \/ \E ch \in Chars : CallEnterChar(ch)
    \/ CallDeleteChar
    \/ CallMoveCursorLeft
    \/ CallMoveCursorRight
    \/ \E reply \in EngineReplies : CallSubmitSql(reply)

SpecMethods == InitMethods /\ [][NextMethods]_vars

----------------------------------------------------------------------------
(* The whole program: main, run_app and ui (the specification Spec).       *)

\* What event::read() can return: a key event (code and kind), or an event
\* that is no key event (mouse, resize, ...).
\* KeyCode: a named key, or Char(c)
Key(name) == [key |-> name, ch |-> "-"]
Char(c) == [key |-> "Char", ch |-> c]
KeyCodes == {Key(n) : n \in {"Enter", "Backspace", "Left", "Right", "Esc",
                              "Down", "Up", "Tab"}}
              \cup {Char(c) : c \in Chars}
KeyKinds == {"Press", "Repeat", "Release"}
Events == {[type |-> "Key", code |-> c, kind |-> k] : c \in KeyCodes, k \in KeyKinds}
            \cup {[type |-> "Other", code |-> Key("Tab"), kind |-> "Press"]}

\* ScrollbarState::position / ScrollbarState::content_length
position(state, p) == [state EXCEPT !.position = p]
content_length(state, n) == [state EXCEPT !.content_length = n]

app_fields == <<input, cursor_position, input_mode, data, vertical_scroll,
                vertical_scroll_state>>
terminal == <<raw_mode, alt_screen, mouse_capture>>

\* main, line 18: Connection::open_in_memory()?
OpenDb(ok) ==
    /\ pc = "open_db" /\ panic = "none"
    /\ pc' = IF ok THEN "enable_raw" ELSE "exit_err"
    /\ UNCHANGED <<app_fields, terminal, res, panic>>

\* main, line 21: enable_raw_mode()?
EnableRawMode(ok) ==
    /\ pc = "enable_raw" /\ panic = "none"
    /\ raw_mode' = ok
    /\ pc' = IF ok THEN "enter_alt" ELSE "exit_err"
    /\ UNCHANGED <<app_fields, alt_screen, mouse_capture, res, panic>>

\* main, line 23: execute!(stdout, EnterAlternateScreen, EnableMouseCapture)?
\* `done` is the number of commands written before the first failure.
EnterAlternateScreen(done) ==
    /\ pc = "enter_alt" /\ panic = "none"
    /\ alt_screen' = (done >= 1)
    /\ mouse_capture' = (done >= 2)
    /\ pc' = IF done = 2 THEN "new_terminal" ELSE "exit_err"
    /\ UNCHANGED <<app_fields, raw_mode, res, panic>>

\* main, lines 24-28: Terminal::new(backend)?, then App::new and run_app.
NewTerminal(ok) ==
    /\ pc = "new_terminal" /\ panic = "none"
    /\ pc' = IF ok THEN "draw" ELSE "exit_err"
    /\ UNCHANGED <<app_fields, terminal, res, panic>>

\* run_app, line 49: terminal.draw(|f| ui(f, &mut app))?  draw can fail
\* before it calls ui ("fail_before": ui does not run) or after ui returned
\* ("fail_after"); either ends run_app with Err.  ui unwraps data_to_table()
\* and stores the length of the table's text as the scrollbar's content
\* length.
DrawOutcomes == {"ok", "fail_before", "fail_after"}

Draw(outcome) ==
    /\ pc = "draw" /\ panic = "none"
    /\ LET table == data_to_table(self) IN
         IF outcome = "fail_before"
         THEN /\ pc' = "restore_raw"
              /\ res' = "Err"
              /\ UNCHANGED <<vertical_scroll_state, panic>>
         ELSE IF ~table.ok
         THEN /\ panic' = "ui"
              /\ UNCHANGED <<vertical_scroll_state, pc, res>>
         ELSE /\ vertical_scroll_state' =
                     content_length(vertical_scroll_state, table_string_len(table))
              /\ pc' = IF outcome = "ok" THEN "read" ELSE "restore_raw"
              /\ res' = IF outcome = "ok" THEN res ELSE "Err"
              /\ panic' = panic
    /\ UNCHANGED <<input, cursor_position, input_mode, data, vertical_scroll, terminal>>

\* run_app, line 51: event::read()? fails.
ReadFails ==
    /\ pc = "read" /\ panic = "none"
    /\ pc' = "restore_raw"
    /\ res' = "Err"
    /\ UNCHANGED <<app_fields, terminal, panic>>

\* Down with a ceiling: the offset is kept within the content length.
ScrollDownClamped ==
    /\ vertical_scroll' =
           IF vertical_scroll + 1 <= vertical_scroll_state.content_length
           THEN vertical_scroll + 1 ELSE vertical_scroll
    /\ vertical_scroll_state' = position(vertical_scroll_state, vertical_scroll')

\* run_app, lines 60-64: KeyCode::Down
ScrollDown ==
    /\ vertical_scroll' = saturating_add(vertical_scroll, 1)
    /\ vertical_scroll_state' = position(vertical_scroll_state, vertical_scroll')

\* Up without the check of line 66, subtracting without saturation.
ScrollUpUnchecked ==
    /\ vertical_scroll' = vertical_scroll - 1
    /\ vertical_scroll_state' = position(vertical_scroll_state, vertical_scroll')

\* run_app, lines 65-71: KeyCode::Up
ScrollUp ==
    IF vertical_scroll >= 1
    THEN /\ vertical_scroll' = saturating_sub(vertical_scroll, 1)
         /\ vertical_scroll_state' =
                position(vertical_scroll_state, vertical_scroll')
    ELSE UNCHANGED <<vertical_scroll, vertical_scroll_state>>

\* The Normal arm with `continue` after a scroll key: the loop reads the next
\* event without drawing.
NormalKeyScrollSkipsDraw(code) ==
    CASE code = Char("e") ->
           /\ input_mode' = "Editing"
           /\ pc' = "draw"
           /\ UNCHANGED <<input, cursor_position, data, vertical_scroll,
                          vertical_scroll_state, res, panic>>
      [] code = Char("q") ->
           /\ res' = "Ok"
           /\ pc' = "restore_raw"
           /\ UNCHANGED <<app_fields, panic>>
      [] code = Key("Down") ->
           /\ ScrollDown
           /\ pc' = "read"
           /\ UNCHANGED <<input, cursor_position, input_mode, data, res, panic>>
      [] code = Key("Up") ->
           /\ ScrollUp
           /\ pc' = "read"
           /\ UNCHANGED <<input, cursor_position, input_mode, data, res, panic>>
      [] OTHER ->
           /\ pc' = "draw"
           /\ UNCHANGED <<app_fields, res, panic>>

\* run_app, lines 53-73: a key in Normal mode (the kind is not looked at).
NormalKey(code) ==
    CASE code = Char("e") ->
           /\ input_mode' = "Editing"
           /\ pc' = "draw"
           /\ UNCHANGED <<input, cursor_position, data, vertical_scroll,
                          vertical_scroll_state, res, panic>>
      [] code = Char("q") ->
           /\ res' = "Ok"
           /\ pc' = "restore_raw"
           /\ UNCHANGED <<app_fields, panic>>
      [] code = Key("Down") ->
           /\ ScrollDown
           /\ pc' = "draw"
           /\ UNCHANGED <<input, cursor_position, input_mode, data, res, panic>>
      [] code = Key("Up") ->
           /\ ScrollUp
           /\ pc' = "draw"
           /\ UNCHANGED <<input, cursor_position, input_mode, data, res, panic>>
      [] OTHER ->
           /\ pc' = "draw"
           /\ UNCHANGED <<app_fields, res, panic>>

\* The Editing arm with a submission that also leaves Editing mode.
EditingKeyEnterLeavesEditing(code, reply) ==
    LET after ==
          CASE code = Key("Enter") -> submit_sql(self, reply)
            [] code.key = "Char" -> enter_char(self, code.ch)
            [] code = Key("Backspace") -> delete_char(self)
            [] code = Key("Left") -> move_cursor_left(self)
            [] code = Key("Right") -> move_cursor_right(self)
            [] OTHER -> self
    IN  /\ Becomes(after)
        /\ input_mode' = IF code \in {Key("Esc"), Key("Enter")}
                          THEN "Normal" ELSE input_mode
        /\ pc' = IF after.panic = "none" THEN "draw" ELSE pc
        /\ UNCHANGED <<vertical_scroll, vertical_scroll_state, res>>

\* The Editing arm with a submission that also rewinds the result view: Enter
\* puts the scroll offset back to 0.
EditingKeyEnterResetsScroll(code, reply) ==
    LET after ==
          CASE code = Key("Enter") -> submit_sql(self, reply)
            [] code.key = "Char" -> enter_char(self, code.ch)
            [] code = Key("Backspace") -> delete_char(self)
            [] code = Key("Left") -> move_cursor_left(self)
            [] code = Key("Right") -> move_cursor_right(self)
            [] OTHER -> self
    IN  /\ Becomes(after)
        /\ input_mode' = IF code = Key("Esc") THEN "Normal" ELSE input_mode
        /\ pc' = IF after.panic = "none" THEN "draw" ELSE pc
        /\ vertical_scroll' =
               IF code = Key("Enter") /\ after.panic = "none"
               THEN 0 ELSE vertical_scroll
        /\ vertical_scroll_state' = position(vertical_scroll_state, vertical_scroll')
        /\ UNCHANGED res

\* run_app, lines 74-93: a pressed key in Editing mode.  A method that
\* panics leaves the loop where it is.
EditingKey(code, reply) ==
    LET after ==
          CASE code = Key("Enter") -> submit_sql(self, reply)
            [] code.key = "Char" -> enter_char(self, code.ch)
            [] code = Key("Backspace") -> delete_char(self)
            [] code = Key("Left") -> move_cursor_left(self)
            [] code = Key("Right") -> move_cursor_right(self)
            [] OTHER -> self
    IN  /\ Becomes(after)
        /\ input_mode' = IF code = Key("Esc") THEN "Normal" ELSE input_mode
        /\ pc' = IF after.panic = "none" THEN "draw" ELSE pc
        /\ UNCHANGED <<vertical_scroll, vertical_scroll_state, res>>

\* The dispatch with the arms of the two modes exchanged.
HandleEventModesSwapped(ev, reply) ==
    /\ pc = "read" /\ panic = "none"
    /\ IF ev.type # "Key"
       THEN pc' = "draw" /\ UNCHANGED <<app_fields, res, panic>>
       ELSE IF input_mode = "Editing"
       THEN NormalKey(ev.code)
       ELSE IF ev.kind = "Press"
       THEN EditingKey(ev.code, reply)
       ELSE pc' = "draw" /\ UNCHANGED <<app_fields, res, panic>>
    /\ UNCHANGED terminal

\* The dispatch without the `if key.kind == KeyEventKind::Press` of line 74.
HandleEventAnyKind(ev, reply) ==
    /\ pc = "read" /\ panic = "none"
    /\ IF ev.type # "Key"
       THEN pc' = "draw" /\ UNCHANGED <<app_fields, res, panic>>
       ELSE IF input_mode = "Normal"
       THEN NormalKey(ev.code)
       ELSE EditingKey(ev.code, reply)
    /\ UNCHANGED terminal

\* run_app, lines 51-96: one event read and dispatched.  `reply` is what the
\* engine answers if the event submits the input.
HandleEvent(ev, reply) ==
    /\ pc = "read" /\ panic = "none"
    /\ IF ev.type # "Key"
       THEN pc' = "draw" /\ UNCHANGED <<app_fields, res, panic>>
       ELSE IF input_mode = "Normal"
       THEN NormalKey(ev.code)
       ELSE IF ev.kind = "Press"
       THEN EditingKey(ev.code, reply)
       ELSE pc' = "draw" /\ UNCHANGED <<app_fields, res, panic>>
    /\ UNCHANGED terminal

\* main, line 32: disable_raw_mode()?
DisableRawMode(ok) ==
    /\ pc = "restore_raw" /\ panic = "none"
    /\ raw_mode' = IF ok THEN FALSE ELSE raw_mode
    /\ pc' = IF ok THEN "leave_alt" ELSE "exit_err"
    /\ UNCHANGED <<app_fields, alt_screen, mouse_capture, res, panic>>

\* main, lines 33-37: execute!(.., LeaveAlternateScreen, DisableMouseCapture)?
LeaveAlternateScreen(done) ==
    /\ pc = "leave_alt" /\ panic = "none"
    /\ alt_screen' = IF done >= 1 THEN FALSE ELSE alt_screen
    /\ mouse_capture' = IF done >= 2 THEN FALSE ELSE mouse_capture
    /\ pc' = IF done = 2 THEN "show_cursor" ELSE "exit_err"
    /\ UNCHANGED <<app_fields, raw_mode, res, panic>>

\* main, lines 38-44: terminal.show_cursor()?, print res's error, Ok(()).
ShowCursor(ok) ==
    /\ pc = "show_cursor" /\ panic = "none"
    /\ pc' = IF ok THEN "exit_ok" ELSE "exit_err"
    /\ UNCHANGED <<app_fields, terminal, res, panic>>

\* The event is a press of Enter.
IsEnterPress(ev) == ev.type = "Key" /\ ev.kind = "Press" /\ ev.code = Key("Enter")

\* The engine is asked only when Enter is pressed in Editing mode; any other
\* event is dispatched with the one reply that is never looked at.
RepliesTo(ev) ==
    IF input_mode = "Editing" /\ IsEnterPress(ev)
    THEN EngineReplies
    ELSE {[prepare |-> "Err", query |-> "Err", batches |-> <<>>]}

\* The event would make the input longer than the model's bound.
TooLong(ev) ==
    /\ input_mode = "Editing" /\ ev.type = "Key" /\ ev.kind = "Press"
    /\ ev.code.key = "Char"
    /\ Len(input) >= MaxInputChars

Next ==
    \/ \E ok \in BOOLEAN : OpenDb(ok)
    \/ \E ok \in BOOLEAN : EnableRawMode(ok)
    \/ \E done \in 0..2 : EnterAlternateScreen(done)
    \/ \E ok \in BOOLEAN : NewTerminal(ok)
    \/ \E outcome \in DrawOutcomes : Draw(outcome)
    \/ ReadFails
    \/ \E ev \in Events : \E reply \in RepliesTo(ev) :
          /\ ~TooLong(ev)
          /\ ~(input_mode = "Normal" /\ ev.type = "Key" /\ ev.code = Key("Down")
               /\ vertical_scroll >= MaxScroll)
          /\ HandleEvent(ev, reply)
    \/ \E ok \in BOOLEAN : DisableRawMode(ok)
    \/ \E done \in 0..2 : LeaveAlternateScreen(done)
    \/ \E ok \in BOOLEAN : ShowCursor(ok)

Spec == Init /\ [][Next]_vars

----------------------------------------------------------------------------
(* The renderer on its own (the specification SpecRender): the loop is     *)
(* about to draw after a submission stored a result set of up to           *)
(* MaxBatches batches sharing one schema.                                  *)

RECURSIVE BatchSeqs(_)
BatchSeqs(n) ==
    IF n = 0 THEN {<<>>}
    ELSE BatchSeqs(n - 1)
           \cup {Append(rs, b) : rs \in {x \in BatchSeqs(n - 1) : Len(x) = n - 1},
                                 b \in {BatchA, BatchB, BatchE}}

InitRender ==
    /\ input = <<>>
    /\ cursor_position = 0
    /\ input_mode = "Editing"
    /\ data \in BatchSeqs(MaxBatches)
    /\ vertical_scroll = 0
    /\ vertical_scroll_state = [content_length |-> 0, position |-> 0]
    /\ pc = "draw"
    /\ res = "none"
    /\ raw_mode = TRUE
    /\ alt_screen = TRUE
    /\ mouse_capture = TRUE
    /\ panic = "none"

NextRender == \E outcome \in DrawOutcomes : Draw(outcome)

SpecRender == InitRender /\ [][NextRender]_vars

\* The process has ended: main returned, or a panic unwound it.
Terminated == pc \in {"exit_ok", "exit_err"} \/ panic # "none"

----------------------------------------------------------------------------
(* The claims.  Positions and lengths "in scalar values" are positions in  *)
(* and the Len of the char sequence `input`.                               *)

Min(a, b) == IF a <= b THEN a ELSE b
Max(a, b) == IF a >= b THEN a ELSE b

EnterPress == [type |-> "Key", code |-> Key("Enter"), kind |-> "Press"]
Rejections == {reply \in EngineReplies : reply.prepare = "Err" \/ reply.query = "Err"}
Acceptances == EngineReplies \ Rejections

\* C1: in every reachable state of the input buffer,
\* 0 <= cursor_position <= length(text), the length counted in scalar values.
C1_CursorWithinText ==
    0 <= cursor_position /\ cursor_position <= Len(input)

\* C2: insert, delete_before_cursor, move_left and move_right complete
\* normally from every reachable buffer state: no insert is attempted at an
\* offset that falls inside a multi-byte character, so none aborts.
C2_BufferOperationsTotal ==
    panic # "enter_char"

\* C3: when Enter is pressed in Editing mode and the engine rejects the SQL,
\* the session stays alive (the loop goes on to its next draw) and the
\* ResultSet, the input text and the cursor are what they were.
C3_RejectedSubmitKeepsSession ==
    [][\A reply \in Rejections :
          (input_mode = "Editing" /\ HandleEvent(EnterPress, reply))
          => /\ panic' = "none"
             /\ pc' = "draw"
             /\ data' = data
             /\ input' = input
             /\ cursor_position' = cursor_position]_vars

\* C4: whenever the process has terminated, on any exit path, raw mode is
\* disabled and the alternate screen has been left.
C4_TerminalRestoredOnExit ==
    Terminated => (~raw_mode /\ ~alt_screen)

\* C5: a successful submission replaces the ResultSet by exactly the batches
\* the engine returned, in the engine's order, and leaves the input empty
\* with cursor_position = 0.
C5_SubmitReplacesResultSet ==
    [][\A reply \in Acceptances :
          (input_mode = "Editing" /\ HandleEvent(EnterPress, reply))
          => /\ data' = reply.batches
             /\ input' = <<>>
             /\ cursor_position' = 0
             /\ panic' = "none"
             /\ pc' = "draw"]_vars

\* C5's case: the loop is about to draw a result set of two batches that a
\* submission in Editing mode has just stored, the input consumed.
C5_Witness ==
    /\ pc = "draw" /\ input_mode = "Editing"
    /\ data = <<BatchA, BatchB>>
    /\ input = <<>> /\ cursor_position = 0

\* C6: insert(ch) at cursor c (0 <= c <= length(t)) yields
\* t[0..c) ++ <ch> ++ t[c..) and cursor_position = min(c + 10, length(t) + 1),
\* positions and lengths counted in scalar values.
C6_InsertAtCursor ==
    [][\A ch \in Chars :
          (cursor_position <= Len(input) /\ CallEnterChar(ch))
          => /\ input' = take(input, cursor_position) \o <<ch>>
                            \o skip(input, cursor_position)
             /\ cursor_position' = Min(cursor_position + 10, Len(input) + 1)]_vars

\* C7: delete_before_cursor with cursor c > 0 removes exactly the scalar
\* value at position c - 1 (the text gets one shorter) and sets
\* cursor_position to max(c - 10, 0), in every reachable state.
C7_DeleteBeforeCursor ==
    [][(cursor_position > 0 /\ CallDeleteChar)
          => /\ input' = take(input, cursor_position - 1)
                            \o skip(input, cursor_position)
             /\ Len(input') = Len(input) - 1
             /\ cursor_position' = Max(cursor_position - 10, 0)]_vars

\* The App after the chars of cs were inserted one at a time.
RECURSIVE InsertAll(_, _)
InsertAll(s, cs) ==
    IF cs = <<>> THEN s
    ELSE IF s.panic # "none" THEN s
    ELSE InsertAll(enter_char(s, Head(cs)), Tail(cs))

\* The App after n calls of delete_char.
RECURSIVE DeleteTimes(_, _)
DeleteTimes(s, n) ==
    IF n = 0 \/ s.panic # "none" THEN s ELSE DeleteTimes(delete_char(s), n - 1)

\* The runs of n chars.
Runs(n) == [1..n -> Chars]

\* C8 as stated: from any reachable buffer state and for any n >= 1, n
\* inserts followed by n deletes restore the text.
C8_InsertsThenDeletesRestore ==
    \A n \in 1..MaxRun : \A cs \in Runs(n) :
        LET after == DeleteTimes(InsertAll(self, cs), n)
        IN  panic = "none" => (after.panic = "none" /\ after.input = input)

\* The scalar position at which enter_char puts its char.
InsertedAt(s) ==
    CHOOSE j \in 0..Len(s.input) : byte_offset(s.input, j) = s.cursor_position

\* C8 as amended: one insert followed by one delete restores the text
\* whenever the delete targets the inserted char, that is, whenever the cursor
\* after the insert is one scalar position past the char just inserted.
C8_InsertThenDeleteAtSamePosition ==
    \A ch \in Chars :
        (panic = "none" /\ is_char_boundary(input, cursor_position)) =>
            LET inserted == enter_char(self, ch)
                after == delete_char(inserted)
            IN  inserted.cursor_position = InsertedAt(self) + 1
                    => (after.panic = "none" /\ after.input = input)

\* C8's case: a text of several chars with the cursor at its end (no wide
\* char before it), where the inserted char is the one the delete removes.
C8_Witness ==
    /\ panic = "none"
    /\ Len(input) >= 2 /\ cursor_position = Len(input)
    /\ len(input) = Len(input)
    /\ enter_char(self, "q").cursor_position = InsertedAt(self) + 1
    /\ delete_char(enter_char(self, "q")).input = input

\* C9: delete_before_cursor with cursor_position = 0 is a no-op: the text
\* and the cursor are unchanged.
C9_DeleteAtLeftmostIsNoOp ==
    [][(cursor_position = 0 /\ CallDeleteChar)
          => (input' = input /\ cursor_position' = cursor_position)]_vars

\* C9's case: a non-empty text with the cursor at its leftmost position,
\* where a delete has something it could remove.
C9_Witness ==
    /\ panic = "none" /\ cursor_position = 0 /\ Len(input) >= 2
    /\ delete_char(self) = self

\* C10: move_left sets cursor_position to max(c - 10, 0), move_right sets it
\* to min(c + 10, length(text)) with the length counted in scalar values, and
\* both leave the text unchanged.
C10_MoveCursor ==
    [][/\ CallMoveCursorLeft
            => (cursor_position' = Max(cursor_position - 10, 0) /\ input' = input)
       /\ CallMoveCursorRight
            => (cursor_position' = Min(cursor_position + 10, Len(input))
                /\ input' = input)]_vars

\* The key event with code `code` and kind `kind`.
KeyEvent(code, kind) == [type |-> "Key", code |-> code, kind |-> kind]

\* The reply handed to a dispatch that does not ask the engine.
NoReply == [prepare |-> "Err", query |-> "Err", batches |-> <<>>]

\* C11: ScrollState.offset is >= 0 in every reachable state; an Up event in
\* Normal mode with offset = 0 leaves it at 0 (so does any number of them),
\* and an Up event with offset >= 1 decreases it by exactly 1.
C11_UpFlooredAtZero ==
    /\ [](vertical_scroll >= 0)
    /\ [][\A kind \in KeyKinds :
            (input_mode = "Normal" /\ HandleEvent(KeyEvent(Key("Up"), kind), NoReply))
            => vertical_scroll' =
                  IF vertical_scroll = 0 THEN 0 ELSE vertical_scroll - 1]_vars

\* C11's case: in Normal mode, a draw is due with the offset back at 0 and
\* the scrollbar's position, which only Down and Up write, back at 0 too,
\* over a result a submission stored.
C11_Witness ==
    /\ pc = "draw" /\ input_mode = "Normal" /\ panic = "none"
    /\ vertical_scroll = 0 /\ vertical_scroll_state.position = 0
    /\ data = <<BatchA, BatchB>>

\* C12: the mode starts as Normal; it goes from Normal to Editing only on
\* key e in Normal mode and from Editing to Normal only on a press of Esc in
\* Editing mode; these two events do change it, and every other event
\* (Enter included) leaves it unchanged.
C12_ModeTransitions ==
    /\ input_mode = "Normal"
    /\ [][/\ input_mode' # input_mode =>
               \/ /\ input_mode = "Normal" /\ input_mode' = "Editing"
                  /\ \E kind \in KeyKinds :
                        HandleEvent(KeyEvent(Char("e"), kind), NoReply)
               \/ /\ input_mode = "Editing" /\ input_mode' = "Normal"
                  /\ HandleEvent(KeyEvent(Key("Esc"), "Press"), NoReply)
          /\ \A kind \in KeyKinds :
               (input_mode = "Normal"
                   /\ HandleEvent(KeyEvent(Char("e"), kind), NoReply))
               => input_mode' = "Editing"
          /\ (input_mode = "Editing"
                 /\ HandleEvent(KeyEvent(Key("Esc"), "Press"), NoReply))
               => input_mode' = "Normal"]_vars

\* C12's case: back in Normal mode with a text that was typed in Editing
\* mode: the mode went to Editing and returned.
C12_Witness ==
    /\ pc = "draw" /\ input_mode = "Normal" /\ panic = "none"
    /\ Len(input) >= 2

\* C13: run_app returns success only on key q received in Normal mode; a
\* press of q in Editing mode is inserted into the input text and does not
\* end the loop, and no other key in either mode ends it.
C13_QuitOnlyInNormalMode ==
    [][/\ (res # "Ok" /\ res' = "Ok") =>
             /\ input_mode = "Normal"
             /\ \E kind \in KeyKinds :
                   HandleEvent(KeyEvent(Char("q"), kind), NoReply)
       /\ (input_mode = "Editing"
              /\ HandleEvent(KeyEvent(Char("q"), "Press"), NoReply))
           => /\ Len(input') = Len(input) + 1
              /\ \E i \in 1..Len(input') : input'[i] = "q"
              /\ pc' = "draw" /\ panic' = "none" /\ res' = res
       /\ \A ev \in Events : \A reply \in EngineReplies :
             (HandleEvent(ev, reply) /\ ev.code # Char("q"))
             => (pc' = "draw" /\ panic' = "none" /\ res' = res)]_vars

\* C14: after every render, ScrollState.content_length is the number of
\* lines of the rendered grid text.
C14_ContentLengthIsLineCount ==
    [][\A outcome \in {"ok", "fail_after"} :
          (Draw(outcome) /\ panic' = "none")
          => vertical_scroll_state'.content_length
                = table_lines(data_to_table(self))]_vars

\* The rows of the batches before batch number b.
RECURSIVE RowsBefore(_, _)
RowsBefore(batches, b) ==
    IF b <= 1 THEN 0
    ELSE RowsBefore(batches, b - 1) + num_rows(batches[b - 1])

\* C15: rendering batches with row counts r1..rn yields exactly r1 + .. + rn
\* rows, the rows of batch i before those of batch i + 1 and each batch's
\* rows in their order; with no batch the table has no header cell and no
\* row, and no error is raised.
C15_RowsInBatchThenRowOrder ==
    LET table == data_to_table(self)
    IN  (\A b \in 1..Len(data) : formattable(data[b])) =>
          /\ table.ok
          /\ Len(table.rows) = RowsBefore(data, Len(data) + 1)
          /\ \A b \in 1..Len(data) : \A r \in 1..num_rows(data[b]) :
                table.rows[RowsBefore(data, b) + r]
                   = [c \in 1..Len(data[b].columns) |->
                         ToString(data[b].columns[c][r])]
          /\ data = <<>> => (table.header = <<>> /\ table.rows = <<>>)

\* C15's case: three batches of 2, 0 and 1 rows have been rendered (the
\* scrollbar holds the length of their grid) into three rows.
C15_Witness ==
    /\ pc = "read" /\ panic = "none"
    /\ data = <<BatchB, BatchE, BatchA>>
    /\ data_to_table(self).rows = << <<"2">>, <<"3">>, <<"1">> >>
    /\ vertical_scroll_state.content_length
          = table_string_len(data_to_table(self))

\* C16: every Down event in Normal mode increases ScrollState.offset by
\* exactly 1, whatever content_length is (states with offset >
\* content_length are reachable), while Up is floored at 0.
C16_DownHasNoCeiling ==
    [][/\ \A kind \in KeyKinds :
            (input_mode = "Normal"
                /\ HandleEvent(KeyEvent(Key("Down"), kind), NoReply))
            => vertical_scroll' = vertical_scroll + 1
       /\ \A kind \in KeyKinds :
            (input_mode = "Normal" /\ vertical_scroll = 0
                /\ HandleEvent(KeyEvent(Key("Up"), kind), NoReply))
            => vertical_scroll' = 0]_vars

\* C16's case: after a render, in Normal mode, the offset that Down events
\* built up is beyond the content length just stored.
C16_Witness ==
    /\ pc = "read" /\ input_mode = "Normal" /\ panic = "none"
    /\ vertical_scroll > vertical_scroll_state.content_length
    /\ vertical_scroll_state.position = vertical_scroll

\* C17: no key event received in Normal mode changes the input text, the
\* cursor or the ResultSet, and no key event received in Editing mode
\* changes ScrollState.offset.
C17_ModesTouchDisjointState ==
    [][/\ (pc = "read" /\ input_mode = "Normal") =>
             \/ UNCHANGED <<input, cursor_position, data>>
             \/ \A ev \in Events :
                   ev.type = "Key" => ~HandleEvent(ev, NoReply)
       /\ (pc = "read" /\ input_mode = "Editing") =>
             \/ UNCHANGED <<vertical_scroll, vertical_scroll_state>>
             \/ \A ev \in Events : \A reply \in EngineReplies :
                   ev.type = "Key" => ~HandleEvent(ev, reply)]_vars

\* C17's case: back in Normal mode, a draw is due with a typed text, a
\* stored result and a scrolled view all in place.
C17_Witness ==
    /\ pc = "draw" /\ input_mode = "Normal" /\ panic = "none"
    /\ input # <<>> /\ cursor_position > 0
    /\ data # <<>> /\ vertical_scroll >= 1

\* C18: in Editing mode a key event whose kind is not Press is ignored,
\* whatever its code: mode, text, cursor, ResultSet and scroll offset are
\* unchanged and no query is submitted.
C18_NonPressIgnoredInEditing ==
    [][(pc = "read" /\ input_mode = "Editing") =>
          \/ /\ UNCHANGED <<input_mode, input, cursor_position, data,
                             vertical_scroll, vertical_scroll_state, res>>
             /\ panic' = "none" /\ pc' = "draw"
          \/ \A code \in KeyCodes : \A kind \in KeyKinds \ {"Press"} :
                \A reply \in EngineReplies :
                   ~HandleEvent(KeyEvent(code, kind), reply)]_vars

\* C18's case: in Editing mode a draw is due with one char typed and the
\* cursor behind it, nothing submitted and nothing scrolled.
C18_Witness ==
    /\ pc = "draw" /\ input_mode = "Editing" /\ panic = "none"
    /\ Len(input) = 1 /\ cursor_position = len(input)
    /\ data = <<>> /\ vertical_scroll = 0

\* C19: events and renders alternate: a dispatched event that does not end
\* the loop is followed by a draw, never by another event; the draw changes
\* nothing of what the event left, and the next event is read only after ui
\* rendered that state.
C19_EventsAndRendersAlternate ==
    [][/\ pc = "read" =>
             \/ pc' = "draw" /\ panic' = "none"
             \/ pc' = "restore_raw" /\ res' \in {"Ok", "Err"}
             \/ pc' = "read" /\ panic' # "none"
       /\ pc = "draw" =>
             /\ UNCHANGED <<input, cursor_position, input_mode, data,
                            vertical_scroll>>
             /\ \/ /\ pc' = "read" /\ panic' = "none"
                   /\ data_to_table(self).ok
                   /\ vertical_scroll_state'.content_length
                         = table_string_len(data_to_table(self))
                \/ pc' = "restore_raw" /\ res' = "Err"
                \/ pc' = "draw" /\ panic' = "ui"]_vars

\* C19's case: the loop waits for its next event with a text typed and a
\* result stored by earlier events, and the scrollbar holding the length of
\* the grid rendered from that result.
C19_Witness ==
    /\ pc = "read" /\ panic = "none"
    /\ input # <<>> /\ data = <<BatchA, BatchB>>
    /\ vertical_scroll_state.content_length
          = table_string_len(data_to_table(self))

\* C20: a successful submission changes only the ResultSet, the text and
\* the cursor: the mode stays Editing and ScrollState.offset keeps its value.
C20_SubmitKeepsModeAndScroll ==
    [][\A reply \in Acceptances :
          (input_mode = "Editing" /\ HandleEvent(EnterPress, reply))
          => /\ input_mode' = "Editing"
             /\ UNCHANGED <<vertical_scroll, vertical_scroll_state, res,
                            raw_mode, alt_screen, mouse_capture>>]_vars

\* C20's case: a submission in Editing mode has stored the empty result
\* while the offset set earlier is still there, beyond the length of the
\* empty table's grid.
C20_Witness ==
    /\ pc = "draw" /\ input_mode = "Editing" /\ panic = "none"
    /\ input = <<>> /\ cursor_position = 0
    /\ data = <<>>
    /\ vertical_scroll_state.content_length
          = table_string_len(data_to_table([self EXCEPT !.data = <<BatchA, BatchB>>]))
    /\ vertical_scroll > table_string_len(data_to_table(self))

====
